---- MODULE Spec2Model ----
(***************************************************************************)
(* Model of clean-code-checker: the detection engine                      *)
(* (scripts/analyze_code.py, CleanCodeAnalyzer) and the transformation    *)
(* engine (scripts/refactor_code.py, CleanCodeRefactorer).                *)
(*                                                                         *)
(* Text is modelled character by character: a Python str is a sequence of *)
(* one-character strings, a list of lines is a sequence of such           *)
(* sequences.  Chars("ab") = <<"a", "b">>.                                 *)
(***************************************************************************)
EXTENDS Integers, Sequences, FiniteSets, TLC

VARIABLES
    pc,               \* position of the running call
    language,         \* self.language of the engine instance
    disk,             \* the target file: its text, or NoFile
    backups,          \* backup files written beside the target, by timestamp
    file_path,        \* the call's argument file_path
    rules,            \* refactor's argument `rules` (None or a list of names)
    lines,            \* refactor/analyze local `lines`
    idx,              \* position of the loop over the rules
    refactored_lines, \* self.refactored_lines
    rules_applied,    \* self.rules_applied
    result,           \* what the call returned (or the exception it raised)
    violations,       \* self.violations of the analyzer
    warnings,         \* the "Warning: Rule ... failed" lines printed so far
    calls,            \* number of calls made on the instance
    trace,            \* history: the apply_function calls of the running call
    writes,           \* history: the files the running call wrote, in order
    prev              \* buffers kept while a transformer is applied directly

vars == <<pc, language, disk, backups, file_path, rules, lines, idx,
          refactored_lines, rules_applied, result, violations, warnings,
          calls, trace, writes, prev>>

-----------------------------------------------------------------------------
(* Python str operations on sequences of characters.                       *)

Chars(s) == [i \in 1..Len(s) |-> SubSeq(s, i, i)]

MaxOf(S) == CHOOSE m \in S : \A n \in S : n <= m

MinOf(S) == CHOOSE m \in S : \A n \in S : m <= n

\* str.isspace() on the characters of the model's alphabet
IsSpace(c) == c \in {" ", "\t", "\n", "\r"}

LowerAlpha == Chars("abcdefghijklmnopqrstuvwxyz")

UpperAlpha == Chars("ABCDEFGHIJKLMNOPQRSTUVWXYZ")

Digits == {"0", "1", "2", "3", "4", "5", "6", "7", "8", "9"}

IsUpper(c) == \E i \in 1..26 : UpperAlpha[i] = c

IsLower(c) == \E i \in 1..26 : LowerAlpha[i] = c

IsDigit(c) == c \in Digits

\* a regex \w character
IsWord(c) == IsUpper(c) \/ IsLower(c) \/ IsDigit(c) \/ c = "_"

LowerChar(c) ==
    IF IsUpper(c) THEN LowerAlpha[CHOOSE i \in 1..26 : UpperAlpha[i] = c] ELSE c

UpperChar(c) ==
    IF IsLower(c) THEN UpperAlpha[CHOOSE i \in 1..26 : LowerAlpha[i] = c] ELSE c

\* str.lower()
Lower(s) == [i \in 1..Len(s) |-> LowerChar(s[i])]

\* str.rstrip()
RStrip(s) ==
    LET keep == {i \in 1..Len(s) : ~IsSpace(s[i])}
    IN  IF keep = {} THEN <<>> ELSE SubSeq(s, 1, MaxOf(keep))

\* str.lstrip()
LStrip(s) ==
    LET keep == {i \in 1..Len(s) : ~IsSpace(s[i])}
    IN  IF keep = {} THEN <<>> ELSE SubSeq(s, MinOf(keep), Len(s))

\* str.strip()
Strip(s) == LStrip(RStrip(s))

\* s.startswith(p)
StartsWith(s, p) == Len(s) >= Len(p) /\ SubSeq(s, 1, Len(p)) = p

\* s.endswith(p)
EndsWith(s, p) == Len(s) >= Len(p) /\ SubSeq(s, Len(s) - Len(p) + 1, Len(s)) = p

\* the positions at which sub occurs in s
Occurrences(s, sub) ==
    {i \in 1..(Len(s) - Len(sub) + 1) : SubSeq(s, i, i + Len(sub) - 1) = sub}

\* s.find(sub) + 1: the first position of sub in s, 0 when there is none
Find(s, sub) ==
    IF Occurrences(s, sub) = {} THEN 0 ELSE MinOf(Occurrences(s, sub))

\* sub in s
Contains(s, sub) == Occurrences(s, sub) # {}

\* s.replace(old, new), old not empty: left to right, not overlapping
RECURSIVE Replace(_, _, _)
Replace(s, old, new) ==
    LET i == Find(s, old)
    IN  IF i = 0 THEN s
        ELSE SubSeq(s, 1, i - 1) \o new
                 \o Replace(SubSeq(s, i + Len(old), Len(s)), old, new)

\* s.replace(old, new, 1)
ReplaceFirst(s, old, new) ==
    LET i == Find(s, old)
    IN  IF i = 0 \/ old = <<>> THEN new \o s
        ELSE SubSeq(s, 1, i - 1) \o new \o SubSeq(s, i + Len(old), Len(s))

\* s.count(c) for a single character c
Count(s, c) == Cardinality({i \in 1..Len(s) : s[i] = c})

\* len(line) - len(line.lstrip())
Indent(s) == Len(s) - Len(LStrip(s))

\* s.split(sep) for a single character sep
RECURSIVE Split(_, _)
Split(s, sep) ==
    LET at == {i \in 1..Len(s) : s[i] = sep}
    IN  IF at = {} THEN <<s>>
        ELSE <<SubSeq(s, 1, MinOf(at) - 1)>>
                 \o Split(SubSeq(s, MinOf(at) + 1, Len(s)), sep)

\* sep.join(parts)
RECURSIVE Join(_, _)
Join(parts, sep) ==
    IF parts = <<>> THEN <<>>
    ELSE IF Len(parts) = 1 THEN parts[1]
    ELSE parts[1] \o sep \o Join(Tail(parts), sep)

\* ''.join(lines): what writelines(lines) puts in the file
Concat(ls) == Join(ls, <<>>)

-----------------------------------------------------------------------------
(* The transformers of CleanCodeRefactorer.  Each takes self.language and  *)
(* self.refactored_lines and yields the new self.refactored_lines.         *)

JsLanguages == {"js", "ts"}

Languages == JsLanguages \cup {"python"}

\* _to_camel_case: components[0] + ''.join(word.capitalize() ...)
Capitalize(w) ==
    IF w = <<>> THEN <<>>
    ELSE <<UpperChar(w[1])>> \o Lower(SubSeq(w, 2, Len(w)))

RECURSIVE CapitalizeAll(_)
CapitalizeAll(words) ==
    IF words = <<>> THEN <<>>
    ELSE Capitalize(words[1]) \o CapitalizeAll(Tail(words))

to_camel_case(snake_str) ==
    LET components == Split(snake_str, "_")
    IN  components[1] \o CapitalizeAll(Tail(components))

\* _to_snake_case: '_' before every upper-case character but the first one
RECURSIVE SnakeFrom(_, _)
SnakeFrom(s, i) ==
    IF i > Len(s) THEN <<>>
    ELSE (IF IsUpper(s[i]) /\ i > 1 THEN <<"_">> ELSE <<>>)
             \o <<LowerChar(s[i])>> \o SnakeFrom(s, i + 1)

\* camel_str.lower(), no '_' put in
lower_only(camel_str) == Lower(camel_str)

to_snake_case(camel_str) == SnakeFrom(camel_str, 1)

\* The regex  \b(kw1|kw2|...)\s+([c][a-zA-Z0-9_]*)  at position i of s, where
\* [c] is [a-z] (first = "lower"), [A-Z] (first = "upper") or [a-zA-Z_]
\* (first = "ident"): the match as
\* [kw, from, to] (the identifier is s[from..to]), or kw = <<>> for no match.
FirstOk(c, first) ==
    CASE first = "lower" -> IsLower(c)
      [] first = "upper" -> IsUpper(c)
      [] OTHER           -> IsLower(c) \/ IsUpper(c) \/ c = "_"

DeclMatchAt(s, i, keywords, first) ==
    LET boundary == i = 1 \/ ~IsWord(s[i - 1])
        kws == {k \in 1..Len(keywords) :
                    /\ i + Len(keywords[k]) - 1 <= Len(s)
                    /\ SubSeq(s, i, i + Len(keywords[k]) - 1) = keywords[k]}
        kw == IF kws = {} THEN <<>> ELSE keywords[MinOf(kws)]
        ws0 == i + Len(kw)
        nonspace == {j \in ws0..Len(s) : ~IsSpace(s[j])}
        from == IF nonspace = {} THEN Len(s) + 1 ELSE MinOf(nonspace)
        nonword == {j \in from..Len(s) : ~IsWord(s[j])}
        to == IF nonword = {} THEN Len(s) ELSE MinOf(nonword) - 1
    IN  IF boundary /\ kw # <<>> /\ from > ws0 /\ from <= Len(s)
           /\ FirstOk(s[from], first)
        THEN [kw |-> kw, from |-> from, to |-> to]
        ELSE [kw |-> <<>>, from |-> 0, to |-> 0]

\* re.sub of that regex over s from position i on: every match becomes
\* prefix + " " + conv(identifier), prefix being the keyword matched
RECURSIVE SubDecl(_, _, _, _, _)
SubDecl(s, i, keywords, first, conv) ==
    LET at == {j \in i..Len(s) : DeclMatchAt(s, j, keywords, first).kw # <<>>}
    IN  IF at = {} THEN SubSeq(s, i, Len(s))
        ELSE LET m == DeclMatchAt(s, MinOf(at), keywords, first)
             IN  SubSeq(s, i, MinOf(at) - 1) \o m.kw \o <<" ">>
                     \o (IF conv = "camel"
                         THEN to_camel_case(SubSeq(s, m.from, m.to))
                         ELSE to_snake_case(SubSeq(s, m.from, m.to)))
                     \o SubDecl(s, m.to + 1, keywords, first, conv)

fix_naming_line(lang, line) ==
    IF lang \in JsLanguages
    THEN SubDecl(SubDecl(line, 1, <<Chars("let"), Chars("const"), Chars("var")>>,
                         "lower", "camel"),
                 1, <<Chars("function")>>, "lower", "camel")
    ELSE IF lang = "python"
    THEN SubDecl(SubDecl(line, 1, <<Chars("def")>>, "lower", "snake"),
                 1, <<Chars("class")>>, "upper", "snake")
    ELSE line

fix_naming_conventions(lang, buf) ==
    [i \in 1..Len(buf) |-> fix_naming_line(lang, buf[i])]

Spaces(n) == [i \in 1..n |-> " "]

\* _break_js_line
break_js_line(line) ==
    IF Contains(line, <<"+">>) /\ ~Contains(line, Chars("template"))
    THEN LET parts == Split(line, "+")
         IN  IF Len(parts) > 1
             THEN parts[1] \o Chars(" +\n") \o Spaces(Indent(line))
                      \o Join(Tail(parts), Chars(" + "))
             ELSE line
    ELSE line

\* _break_python_line
break_python_line(line) ==
    IF Contains(line, <<"(">>) /\ Contains(line, <<")">>)
    THEN LET parts == Split(line, "(")
         IN  IF Len(parts) > 1
             THEN parts[1] \o Chars("(\n") \o Spaces(Indent(line) + 4)
                      \o Join(Split(parts[2], ","), Chars(", "))
                      \o <<"\n">> \o Spaces(Indent(line)) \o <<")">>
             ELSE line
    ELSE line

BreakLine(lang, line) ==
    IF lang \in JsLanguages THEN break_js_line(line) ELSE break_python_line(line)

ShortenLimit == 80

BreakLimit == 100

\* _shorten_functions
shorten_functions(lang, buf) ==
    [i \in 1..Len(buf) |->
        IF Len(buf[i]) <= ShortenLimit THEN buf[i] ELSE BreakLine(lang, buf[i])]

\* line + '\n', the line not stripped
append_newline(lang, buf) ==
    [i \in 1..Len(buf) |-> buf[i] \o <<"\n">>]

\* _remove_trailing_whitespace: line.rstrip() + '\n'
remove_trailing_whitespace(lang, buf) ==
    [i \in 1..Len(buf) |-> RStrip(buf[i]) \o <<"\n">>]

\* _break_long_lines
break_long_lines(lang, buf) ==
    [i \in 1..Len(buf) |->
        IF Len(buf[i]) > BreakLimit THEN BreakLine(lang, buf[i]) ELSE buf[i]]

\* magic_numbers of _extract_constants, in the dict's order
MagicNumbers ==
    << [num |-> Chars("1000"), const_name |-> Chars("MAX_ITEMS")],
       [num |-> Chars("100"),  const_name |-> Chars("DEFAULT_TIMEOUT")],
       [num |-> Chars("50"),   const_name |-> Chars("MAX_RESULTS")],
       [num |-> Chars("10"),   const_name |-> Chars("DEFAULT_LIMIT")],
       [num |-> Chars("5"),    const_name |-> Chars("RETRY_COUNT")] >>

\* the declaration line _extract_constants inserts
Declaration(lang, m) ==
    IF lang = "python"
    THEN m.const_name \o Chars(" = ") \o m.num \o <<"\n">>
    ELSE Chars("const ") \o m.const_name \o Chars(" = ") \o m.num \o Chars(";\n")

\* list.insert(i, x), i the 0-based index
InsertAt(buf, i, x) == SubSeq(buf, 1, i) \o <<x>> \o SubSeq(buf, i + 1, Len(buf))

\* The inner loop of _extract_constants over magic_numbers from entry k on;
\* st = [buf, i, line] are self.refactored_lines and the locals i (0-based)
\* and line.
RECURSIVE ExtractInner(_, _, _)
ExtractInner(lang, st, k) ==
    IF k > Len(MagicNumbers) THEN st
    ELSE LET m == MagicNumbers[k]
             declare ==
                 /\ st.i > 0
                 /\ ~\E j \in 1..st.i : Contains(st.buf[j], m.const_name)
         IN  IF Contains(st.line, m.num)
             THEN ExtractInner(lang,
                      [buf  |-> IF declare
                                THEN InsertAt(st.buf, st.i, Declaration(lang, m))
                                ELSE st.buf,
                       i    |-> IF declare THEN st.i + 1 ELSE st.i,
                       line |-> Replace(st.line, m.num, m.const_name)],
                      k + 1)
             ELSE ExtractInner(lang, st, k + 1)

\* The outer loop: enumerate() hands out the element at 0-based index n of
\* the list as it is now, so lines inserted at or after n + 1 are visited too.
RECURSIVE ExtractFrom(_, _, _)
ExtractFrom(lang, buf, n) ==
    IF n >= Len(buf) THEN buf
    ELSE LET st == ExtractInner(lang, [buf |-> buf, i |-> n, line |-> buf[n + 1]], 1)
         IN  ExtractFrom(lang, [st.buf EXCEPT ![st.i + 1] = st.line], n + 1)

\* _extract_constants
extract_constants(lang, buf) == ExtractFrom(lang, buf, 0)

ConsoleError == Chars("    console.error('Error:', error);\n")

LoggerError == Chars("    logger.error(f'Error: {e}')\n")

\* _improve_error_handling, from 1-based index i on
RECURSIVE ImproveFrom(_, _, _)
ImproveFrom(lang, buf, i) ==
    IF i > Len(buf) THEN buf
    ELSE IF lang \in JsLanguages
    THEN IF Contains(buf[i], Chars("catch () {"))
         THEN LET b1 == [buf EXCEPT ![i] =
                            Replace(buf[i], Chars("catch () {"), Chars("catch (error) {"))]
                  b2 == IF i + 1 <= Len(buf)
                        THEN [b1 EXCEPT ![i + 1] = ConsoleError \o b1[i + 1]]
                        ELSE b1
              IN  ImproveFrom(lang, b2, i + 1)
         ELSE ImproveFrom(lang, buf, i + 1)
    ELSE IF lang = "python"
    THEN IF /\ Strip(buf[i]) = Chars("except:")
            /\ i + 1 <= Len(buf)
            /\ Strip(buf[i + 1]) = Chars("pass")
         THEN ImproveFrom(lang,
                  [buf EXCEPT ![i] = Replace(buf[i], Chars("except:"),
                                             Chars("except Exception as e:")),
                              ![i + 1] = LoggerError],
                  i + 1)
         ELSE ImproveFrom(lang, buf, i + 1)
    ELSE buf

improve_error_handling(lang, buf) == ImproveFrom(lang, buf, 1)

UselessPrefixes ==
    {Chars("// todo"), Chars("// fixme"), Chars("// hack"), Chars("// this function")}

\* _remove_useless_comments
remove_useless_comments(lang, buf) ==
    [i \in 1..Len(buf) |->
        LET stripped == Strip(buf[i])
        IN  IF /\ StartsWith(stripped, Chars("//"))
               /\ \E p \in UselessPrefixes : StartsWith(Lower(stripped), p)
            THEN ReplaceFirst(buf[i], stripped, <<>>)
            ELSE buf[i]]

\* The keys of _get_all_rules, in the order the dict is built
RuleOrder ==
    << "fix_naming", "shorten_functions", "remove_trailing_whitespace",
       "break_long_lines", "extract_constants", "improve_error_handling",
       "remove_useless_comments" >>

RuleNames == {RuleOrder[i] : i \in 1..Len(RuleOrder)}

\* The method a rule's apply_function is bound to, run on the buffer
Transform(rule, lang, buf) ==
    CASE rule = "fix_naming"                 -> fix_naming_conventions(lang, buf)
      [] rule = "shorten_functions"          -> shorten_functions(lang, buf)
      [] rule = "remove_trailing_whitespace" -> remove_trailing_whitespace(lang, buf)
      [] rule = "break_long_lines"           -> break_long_lines(lang, buf)
      [] rule = "extract_constants"          -> extract_constants(lang, buf)
      [] rule = "improve_error_handling"     -> improve_error_handling(lang, buf)
      [] rule = "remove_useless_comments"    -> remove_useless_comments(lang, buf)

-----------------------------------------------------------------------------
(* The detector rules of CleanCodeAnalyzer.  Each takes self.language and  *)
(* the lines of the file and yields the Violations it appends, in order.   *)
(* line_number is what the rule passes as Violation.line_number.           *)

Violation(category, name, severity, line_number, description, snippet) ==
    [rule_category |-> category, rule_name |-> name, severity |-> severity,
     line_number |-> line_number, description |-> description,
     code_snippet |-> snippet]

\* the elements of a set of numbers, ascending
RECURSIVE Ascending(_)
Ascending(S) ==
    IF S = {} THEN <<>> ELSE <<MinOf(S)>> \o Ascending(S \ {MinOf(S)})

\* f[1] \o f[2] \o ... \o f[n], f a sequence of sequences
RECURSIVE Flatten(_)
Flatten(f) == IF f = <<>> THEN <<>> ELSE f[1] \o Flatten(Tail(f))

\* re.finditer of \b(kw1|...)\s+(identifier) over s from position i on
RECURSIVE DeclMatches(_, _, _, _)
DeclMatches(s, i, keywords, first) ==
    LET at == {j \in i..Len(s) : DeclMatchAt(s, j, keywords, first).kw # <<>>}
    IN  IF at = {} THEN <<>>
        ELSE LET m == DeclMatchAt(s, MinOf(at), keywords, first)
             IN  <<m>> \o DeclMatches(s, m.to + 1, keywords, first)

\* _check_naming_conventions on line i
NamingOnLine(lang, line, i) ==
    IF lang \in JsLanguages
    THEN LET ms == DeclMatches(line, 1,
                       <<Chars("let"), Chars("const"), Chars("var"),
                         Chars("function")>>, "lower")
             bad == SelectSeq(ms, LAMBDA m :
                        Contains(SubSeq(line, m.from, m.to), <<"_">>))
         IN  [k \in 1..Len(bad) |->
                 Violation("naming", "camelCaseConvention", "error", i,
                           <<"Use camelCase", SubSeq(line, bad[k].from, bad[k].to)>>,
                           Strip(line))]
    ELSE IF lang = "python"
    THEN LET ms == DeclMatches(line, 1, <<Chars("def"), Chars("class")>>, "ident")
             bad == SelectSeq(ms, LAMBDA m :
                        LET name == SubSeq(line, m.from, m.to)
                        IN  name # Lower(name) /\ ~Contains(name, <<"_">>))
         IN  [k \in 1..Len(bad) |->
                 Violation("naming", "snakeCaseConvention", "error", i,
                           <<"Use snake_case", SubSeq(line, bad[k].from, bad[k].to)>>,
                           Strip(line))]
    ELSE <<>>

check_naming_conventions(lang, ls) ==
    Flatten([i \in 1..Len(ls) |-> NamingOnLine(lang, ls[i], i)])

FunctionLengthLimit == 20

SnippetLimit == 100

Ellipsis == Chars("...")

\* Lines 118-122: the lines taken after the one at 1-based index i, while
\* the brace count is above zero; j is the 0-based index of the next line.
RECURSIVE BraceBody(_, _, _)
BraceBody(ls, j, brace_count) ==
    IF j < Len(ls) /\ brace_count > 0
    THEN <<ls[j + 1]>>
             \o BraceBody(ls, j + 1,
                    brace_count + Count(ls[j + 1], "{") - Count(ls[j + 1], "}"))
    ELSE <<>>

\* Lines 141-147: the lines taken after the def line, up to the first
\* non-blank line indented no deeper than it
RECURSIVE IndentBody(_, _, _)
IndentBody(ls, j, indent_level) ==
    IF j < Len(ls)
    THEN IF Strip(ls[j + 1]) # <<>> /\ Indent(ls[j + 1]) <= indent_level
         THEN <<>>
         ELSE <<ls[j + 1]>> \o IndentBody(ls, j + 1, indent_level)
    ELSE <<>>

\* _check_function_design on line i: func_start = i - 1 is the line number
FunctionOnLine(lang, ls, i) ==
    IF lang \in JsLanguages
    THEN IF Contains(ls[i], Chars("function "))
         THEN LET func_lines ==
                      <<ls[i]>> \o BraceBody(ls, i, Count(ls[i], "{") - Count(ls[i], "}"))
                  func_content == Join(func_lines, <<"\n">>)
              IN  IF Len(func_lines) > FunctionLengthLimit
                  THEN << Violation("functions", "functionLength", "warning", i - 1,
                              <<"Function is too long", Len(func_lines)>>,
                              SubSeq(func_content, 1,
                                     IF Len(func_content) < SnippetLimit
                                     THEN Len(func_content) ELSE SnippetLimit)
                                  \o Ellipsis) >>
                  ELSE <<>>
         ELSE <<>>
    ELSE IF lang = "python"
    THEN IF StartsWith(Strip(ls[i]), Chars("def "))
         THEN LET func_lines == IndentBody(ls, i, Indent(ls[i]))
              IN  IF Len(func_lines) > FunctionLengthLimit
                  THEN << Violation("functions", "functionLength", "warning", i - 1,
                              <<"Function is too long", Len(func_lines)>>,
                              Join(SubSeq(func_lines, 1, 3), <<"\n">>) \o Ellipsis) >>
                  ELSE <<>>
         ELSE <<>>
    ELSE <<>>

check_function_design(lang, ls) ==
    Flatten([i \in 1..Len(ls) |-> FunctionOnLine(lang, ls, i)])

\* _check_comments on line i: comment = stripped[1:].strip()
CommentOnLine(line, i) ==
    LET stripped == Strip(line)
        comment == Strip(SubSeq(stripped, 2, Len(stripped)))
    IN  IF /\ StartsWith(stripped, Chars("//")) \/ StartsWith(stripped, Chars("#"))
           /\ \/ Lower(comment) \in {Chars("todo"), Chars("fixme"), Chars("hack")}
              \/ StartsWith(Lower(comment), Chars("this function"))
              \/ StartsWith(Lower(comment), Chars("this variable"))
        THEN << Violation("comments", "uselessComment", "info", i,
                    <<"Potentially useless comment", comment>>, stripped) >>
        ELSE <<>>

check_comments(lang, ls) ==
    Flatten([i \in 1..Len(ls) |-> CommentOnLine(ls[i], i)])

LineLengthLimit == 100

\* _check_formatting on line i
FormattingOnLine(line, i) ==
    (IF Len(line) > LineLengthLimit
     THEN << Violation("formatting", "lineLength", "warning", i,
                 <<"Line too long", Len(line)>>, Strip(line)) >>
     ELSE <<>>)
    \o
    (IF RStrip(line) # line
     THEN << Violation("formatting", "trailingWhitespace", "info", i,
                 <<"Line has trailing whitespace">>, Strip(line)) >>
     ELSE <<>>)

check_formatting(lang, ls) ==
    Flatten([i \in 1..Len(ls) |-> FormattingOnLine(ls[i], i)])

\* Lines 205-216: the scan below a catch line; j is the 0-based index of the
\* line looked at and also the number reported for it
RECURSIVE CatchScan(_, _)
CatchScan(ls, j) ==
    IF j < Len(ls) /\ ~EndsWith(Strip(ls[j + 1]), <<"}">>)
    THEN IF \/ Contains(ls[j + 1], Chars("console.log"))
            \/ Contains(ls[j + 1], Chars("throw"))
         THEN <<>>
         ELSE (IF /\ Strip(ls[j + 1]) # <<>>
                  /\ ~StartsWith(Strip(ls[j + 1]), Chars("//"))
               THEN << Violation("error_handling", "emptyCatch", "warning", j,
                           <<"Empty catch block or only console.log">>,
                           Strip(ls[j + 1])) >>
               ELSE <<>>)
              \o CatchScan(ls, j + 1)
    ELSE <<>>

\* _check_error_handling on line i
ErrorHandlingOnLine(lang, ls, i) ==
    IF lang \in JsLanguages /\ Contains(ls[i], Chars("catch")) /\ Contains(ls[i], <<"{">>)
    THEN CatchScan(ls, i)
    ELSE IF lang = "python" /\ Contains(ls[i], Chars("except"))
    THEN IF /\ Contains(ls[i], <<":">>)
            /\ \/ EndsWith(Strip(ls[i]), <<":">>)
               \/ /\ i < Len(ls)
                  /\ ~StartsWith(Strip(ls[i + 1]), Chars("pass"))
                  /\ ~StartsWith(Strip(ls[i + 1]), Chars("#"))
         THEN <<>>
         ELSE << Violation("error_handling", "poorExcept", "warning", i,
                     <<"Poor exception handling">>, Strip(ls[i])) >>
    ELSE <<>>

check_error_handling(lang, ls) ==
    Flatten([i \in 1..Len(ls) |-> ErrorHandlingOnLine(lang, ls, i)])

DuplicateMinCount == 2

DuplicateMinLength == 20

CommentStarts == {Chars("#"), Chars("//"), Chars("/*"), Chars("*/")}

\* _check_duplication: line_counts keeps the stripped lines in the order of
\* their first occurrence
check_duplication(lang, ls) ==
    LET counted == {i \in 1..Len(ls) :
                        /\ Strip(ls[i]) # <<>>
                        /\ ~\E c \in CommentStarts : StartsWith(Strip(ls[i]), c)}
        occurrences(i) == {j \in counted : Strip(ls[j]) = Strip(ls[i])}
        firsts == Ascending({i \in counted : i = MinOf(occurrences(i))})
        dup == SelectSeq(firsts, LAMBDA i :
                   /\ Cardinality(occurrences(i)) > DuplicateMinCount
                   /\ Len(Strip(ls[i])) > DuplicateMinLength)
    IN  [k \in 1..Len(dup) |->
            Violation("duplication", "duplicateCode", "warning", dup[k],
                      <<"Duplicate code found", Cardinality(occurrences(dup[k]))>>,
                      Strip(ls[dup[k]]))]

NestingLimit == 8

NestingStep == 4

ControlStarts == {Chars("if "), Chars("for "), Chars("while "), Chars("with ")}

\* _check_complexity on line i
ComplexityOnLine(line, i) ==
    IF /\ \E c \in ControlStarts : StartsWith(Strip(line), c)
       /\ Indent(line) > NestingLimit
    THEN << Violation("complexity", "deepNesting", "warning", i,
                <<"Deep nesting level", Indent(line) \div NestingStep>>,
                Strip(line)) >>
    ELSE <<>>

check_complexity(lang, ls) ==
    Flatten([i \in 1..Len(ls) |-> ComplexityOnLine(ls[i], i)])

HardcodedKeywords == {Chars("new date()"), Chars("datetime.now()"), Chars("math.random")}

\* _check_testability on line i
TestabilityOnLine(line, i) ==
    IF \E k \in HardcodedKeywords : Contains(Lower(line), k)
    THEN << Violation("testability", "hardcodedDependencies", "warning", i,
                <<"Hardcoded time/random values make testing difficult">>,
                Strip(line)) >>
    ELSE <<>>

check_testability(lang, ls) ==
    Flatten([i \in 1..Len(ls) |-> TestabilityOnLine(ls[i], i)])

ClassLimit == 10

\* _check_design_patterns
check_design_patterns(lang, ls) ==
    LET class_count ==
            Cardinality({i \in 1..Len(ls) : Contains(ls[i], Chars("class "))})
    IN  IF class_count > ClassLimit
        THEN << Violation("design_patterns", "tooManyClasses", "warning", 1,
                    <<"Too many classes", class_count>>,
                    Chars("File structure analysis")) >>
        ELSE <<>>

DigitChars == Chars("0123456789")

DigitValue(c) == (CHOOSE i \in 1..10 : DigitChars[i] = c) - 1

\* int(s) for a string of digits
RECURSIVE StrToInt(_)
StrToInt(d) ==
    IF d = <<>> THEN 0
    ELSE 10 * StrToInt(SubSeq(d, 1, Len(d) - 1)) + DigitValue(d[Len(d)])

\* re.finditer(r'\b\d+\b', line): the runs of digits with no word character
\* on either side, as [from, to], left to right
NumberMatches(line) ==
    LET starts == {a \in 1..Len(line) :
                       /\ IsDigit(line[a])
                       /\ a = 1 \/ ~IsWord(line[a - 1])}
        runEnd(a) == LET stop == {b \in a..Len(line) : ~IsDigit(line[b])}
                     IN  IF stop = {} THEN Len(line) ELSE MinOf(stop) - 1
        ok == {a \in starts : runEnd(a) = Len(line) \/ ~IsWord(line[runEnd(a) + 1])}
        order == Ascending(ok)
    IN  [k \in 1..Len(order) |-> [from |-> order[k], to |-> runEnd(order[k])]]

AllowedNumbers == {0, 1, 2, 10, 100, 1000}

MagicContexts ==
    {Chars("="), Chars("+"), Chars("-"), Chars("*"), Chars("/"), Chars("if"),
     Chars("for")}

\* _check_magic_numbers on line i; len(str(num)) > 1 is num >= 10
MagicOnLine(line, i) ==
    LET ms == NumberMatches(line)
        magic == SelectSeq(ms, LAMBDA m :
                     LET num == StrToInt(SubSeq(line, m.from, m.to))
                     IN  /\ num \notin AllowedNumbers
                         /\ num >= 10
                         /\ \E ctx \in MagicContexts : Contains(Lower(line), ctx))
    IN  [k \in 1..Len(magic) |->
            Violation("magic_numbers", "magicNumber", "info", i,
                      <<"Potential magic number",
                        StrToInt(SubSeq(line, magic[k].from, magic[k].to))>>,
                      Strip(line))]

check_magic_numbers(lang, ls) ==
    Flatten([i \in 1..Len(ls) |-> MagicOnLine(ls[i], i)])

\* The keys of self.rules, in the order the dict is built (lines 36-47)
DetectorOrder ==
    << "naming", "functions", "comments", "formatting", "error_handling",
       "duplication", "complexity", "testability", "design_patterns",
       "magic_numbers" >>

\* The rule function of a category, run on the lines of the file
Detect(rule, lang, ls) ==
    CASE rule = "naming"          -> check_naming_conventions(lang, ls)
      [] rule = "functions"       -> check_function_design(lang, ls)
      [] rule = "comments"        -> check_comments(lang, ls)
      [] rule = "formatting"      -> check_formatting(lang, ls)
      [] rule = "error_handling"  -> check_error_handling(lang, ls)
      [] rule = "duplication"     -> check_duplication(lang, ls)
      [] rule = "complexity"      -> check_complexity(lang, ls)
      [] rule = "testability"     -> check_testability(lang, ls)
      [] rule = "design_patterns" -> check_design_patterns(lang, ls)
      [] rule = "magic_numbers"   -> check_magic_numbers(lang, ls)

-----------------------------------------------------------------------------
(* Files.  open(..., 'r') reads text with universal newlines: "\r\n" and   *)
(* "\r" arrive as "\n"; readlines() cuts after every "\n".                 *)

NoFile == <<"<no file>">>

UniversalNewlines(text) ==
    Replace(Replace(text, Chars("\r\n"), <<"\n">>), <<"\r">>, <<"\n">>)

RECURSIVE KeepEnds(_)
KeepEnds(text) ==
    LET at == {i \in 1..Len(text) : text[i] = "\n"}
    IN  IF text = <<>> THEN <<>>
        ELSE IF at = {} THEN <<text>>
        ELSE <<SubSeq(text, 1, MinOf(at))>>
                 \o KeepEnds(SubSeq(text, MinOf(at) + 1, Len(text)))

\* file.readlines()
ReadLines(text) == KeepEnds(UniversalNewlines(text))

\* file.read(), then content.split('\n')
ReadContent(text) == UniversalNewlines(text)

-----------------------------------------------------------------------------
(* CleanCodeRefactorer.refactor                                            *)

MaxCalls == 2

MaxRules == 2

MaxStamp == 1

\* datetime.now().strftime('%Y%m%d_%H%M%S'): the second a backup is named by
Timestamps == 0..MaxStamp

Paths == {"target", "missing"}

None == <<"<None>">>

\* The texts the target file holds when the engine is created
RefactorFiles ==
    { Chars("x = 1\n"),
      Chars("a \nx = 5\n"),
      Chars("  // todo\nlet my_var = 50; \n"),
      Chars("try:\n  f()\nexcept:\n  pass"),
      Chars("x = 10 \r\ny\r\n"),
      <<>> }

UnknownRule == "no_such_rule"

SeqsUpTo(S, n) == UNION {[1..k -> S] : k \in 0..n}

\* The names callers put in an explicit list: registered ones and one that
\* is not registered
ArgNames == {"remove_trailing_whitespace", "remove_useless_comments", UnknownRule}

\* What a caller passes as `rules`: None, or a list of names
RulesArgs == {None} \cup SeqsUpTo(ArgNames, MaxRules)

NoBackup == [kind |-> "none", path |-> "", ts |-> 0]

AbsentBackup == [kind |-> "absent", path |-> "", ts |-> 0]

BackupPath(path, ts) == [kind |-> "path", path |-> path, ts |-> ts]

\* the value of a key the dict does not have; a key it has holds <<value>>
Absent == <<>>

NoResult ==
    [success |-> FALSE, rules_applied |-> {}, backup_file |-> AbsentBackup,
     changes_count |-> Absent, error |-> <<"<no call yet>">>]

\* lines 69-74 and 76-81: the dict of a call that succeeded
Success(applied, backup, changes) ==
    [success |-> TRUE, rules_applied |-> applied, backup_file |-> backup,
     changes_count |-> <<changes>>, error |-> <<>>]

\* lines 84-88: the dict of a call that failed
Failure(error, applied) ==
    [success |-> FALSE, rules_applied |-> applied, backup_file |-> AbsentBackup,
     changes_count |-> Absent, error |-> error]

\* The call as it would go were apply_function called without the extra
\* argument: the transformer runs on the buffer.
ApplyFunctionBound(rule, lang, buf) ==
    [raised |-> FALSE, error |-> <<>>, buf |-> Transform(rule, lang, buf)]

\* Lines 49 and 55, all_rules[name].apply_function(self): apply_function is
\* the bound method self._<transformer> (lines 93-127), which takes no
\* argument besides self, and is called here with one more: Python raises
\* TypeError ("takes 1 positional argument but 2 were given") before the
\* method's body runs, so the buffer is as it was.
ApplyFunction(rule, lang, buf) ==
    [raised |-> TRUE, error |-> <<"TypeError", rule>>, buf |-> buf]

\* line 48 without its membership test
RegisteredAny(name) == TRUE

\* `if rule_name in all_rules` (line 48)
Registered(name) == name \in RuleNames

\* line 61 with the test always passing
ShouldSaveAlways(applied) == TRUE

\* `if self.rules_applied:` (line 61)
ShouldSave(applied) == applied # {}

\* `if rules:` (line 45): None and the empty list both select every rule
Explicit(rs) == rs # None /\ rs # <<>>

\* refactor(file_path, rules) is called on the instance
RefactorCall(path, rs) ==
    /\ pc \in {"idle", "done"}
    /\ calls < MaxCalls
    /\ calls' = calls + 1
    /\ file_path' = path
    /\ rules' = rs
    /\ idx' = 1
    /\ result' = NoResult
    /\ trace' = <<>>
    /\ writes' = <<>>
    /\ pc' = "open"
    /\ UNCHANGED <<language, disk, backups, lines, refactored_lines,
                   rules_applied, violations, warnings, prev>>

\* Open with the backup written as soon as the file has been read
OpenBackupFirst ==
    /\ pc = "open"
    /\ IF disk[file_path] = NoFile
       THEN /\ result' = Failure(<<"FileNotFoundError", file_path>>, rules_applied)
            /\ pc' = "done"
            /\ UNCHANGED <<lines, refactored_lines, rules_applied, backups,
                           writes>>
       ELSE /\ lines' = ReadLines(disk[file_path])
            /\ refactored_lines' = ReadLines(disk[file_path])
            /\ rules_applied' = {}
            /\ pc' = "rules"
            /\ \E now \in Timestamps :
                   /\ backups' = [backups EXCEPT ![<<file_path, now>>] =
                                      Concat(ReadLines(disk[file_path]))]
                   /\ writes' = <<BackupPath(file_path, now)>>
            /\ UNCHANGED result
    /\ UNCHANGED <<language, disk, file_path, rules, idx, violations,
                   warnings, calls, trace, prev>>

\* Lines 35-40: the call opens and reads the file, then resets the buffer
\* and the applied set; a file that cannot be opened raises into line 83,
\* which reports self.rules_applied as it stands.
Open ==
    /\ pc = "open"
    /\ IF disk[file_path] = NoFile
       THEN /\ result' = Failure(<<"FileNotFoundError", file_path>>, rules_applied)
            /\ pc' = "done"
            /\ UNCHANGED <<lines, refactored_lines, rules_applied>>
       ELSE /\ lines' = ReadLines(disk[file_path])
            /\ refactored_lines' = ReadLines(disk[file_path])
            /\ rules_applied' = {}
            /\ pc' = "rules"
            /\ UNCHANGED result
    /\ UNCHANGED <<language, disk, backups, file_path, rules, idx, violations,
                   warnings, calls, trace, writes, prev>>

\* Lines 47-50: one turn of the loop over an explicit list.  A name that is
\* no key of all_rules is passed over; an exception leaves the try block
\* for line 83.
ApplyExplicit ==
    /\ pc = "rules"
    /\ Explicit(rules)
    /\ IF idx > Len(rules)
       THEN /\ pc' = "save"
            /\ UNCHANGED <<idx, refactored_lines, rules_applied, result, trace>>
       ELSE IF ~Registered(rules[idx])
       THEN /\ idx' = idx + 1
            /\ UNCHANGED <<pc, refactored_lines, rules_applied, result, trace>>
       ELSE LET r == ApplyFunction(rules[idx], language, refactored_lines)
            IN  /\ refactored_lines' = r.buf
                /\ trace' = Append(trace, [rule |-> rules[idx], raised |-> r.raised])
                /\ IF r.raised
                   THEN /\ result' = Failure(r.error, rules_applied)
                        /\ pc' = "done"
                        /\ UNCHANGED <<idx, rules_applied>>
                   ELSE /\ rules_applied' = rules_applied \cup {rules[idx]}
                        /\ idx' = idx + 1
                        /\ UNCHANGED <<pc, result>>
    /\ UNCHANGED <<language, disk, backups, file_path, rules, lines,
                   violations, warnings, calls, writes, prev>>

\* Lines 53-58: one turn of the loop over all_rules.values(); an exception
\* is caught and printed as a warning.
ApplyAll ==
    /\ pc = "rules"
    /\ ~Explicit(rules)
    /\ IF idx > Len(RuleOrder)
       THEN /\ pc' = "save"
            /\ UNCHANGED <<idx, refactored_lines, rules_applied, warnings, trace>>
       ELSE LET r == ApplyFunction(RuleOrder[idx], language, refactored_lines)
            IN  /\ refactored_lines' = r.buf
                /\ trace' = Append(trace, [rule |-> RuleOrder[idx], raised |-> r.raised])
                /\ idx' = idx + 1
                /\ UNCHANGED pc
                /\ IF r.raised
                   THEN /\ warnings' = Append(warnings, RuleOrder[idx])
                        /\ UNCHANGED rules_applied
                   ELSE /\ rules_applied' = rules_applied \cup {RuleOrder[idx]}
                        /\ UNCHANGED warnings
    /\ UNCHANGED <<language, disk, backups, file_path, rules, lines,
                   result, violations, calls, writes, prev>>

\* Lines 61-81: with a rule applied, the backup is written, then the target,
\* and the call returns; with none, the call returns at once.
Save ==
    /\ pc = "save"
    /\ pc' = "done"
    /\ IF ShouldSave(rules_applied)
       THEN \E now \in Timestamps :
            /\ backups' = [backups EXCEPT ![<<file_path, now>>] = Concat(lines)]
            /\ disk' = [disk EXCEPT ![file_path] = Concat(refactored_lines)]
            /\ writes' = <<BackupPath(file_path, now),
                           [kind |-> "target", path |-> file_path, ts |-> 0]>>
            /\ result' = Success(rules_applied, BackupPath(file_path, now),
                                 Len(refactored_lines) - Len(lines))
       ELSE /\ result' = Success({}, NoBackup, 0)
            /\ UNCHANGED <<backups, disk, writes>>
    /\ UNCHANGED <<language, file_path, rules, lines, idx,
                   refactored_lines, rules_applied, violations, warnings,
                   calls, trace, prev>>

\* CleanCodeRefactorer(language) (lines 28-31) beside a target file
Init ==
    /\ pc = "idle"
    /\ language \in Languages
    /\ \E text \in RefactorFiles :
           disk = [p \in Paths |-> IF p = "target" THEN text ELSE NoFile]
    /\ backups = [b \in Paths \X Timestamps |-> NoFile]
    /\ file_path = ""
    /\ rules = None
    /\ lines = <<>>
    /\ idx = 1
    /\ refactored_lines = <<>>
    /\ rules_applied = {}
    /\ result = NoResult
    /\ violations = <<>>
    /\ warnings = <<>>
    /\ calls = 0
    /\ trace = <<>>
    /\ writes = <<>>
    /\ prev = <<>>

Next ==
    \/ \E path \in Paths, rs \in RulesArgs : RefactorCall(path, rs)
    \/ Open
    \/ ApplyExplicit
    \/ ApplyAll
    \/ Save

Spec == Init /\ [][Next]_vars

-----------------------------------------------------------------------------
(* CleanCodeAnalyzer.analyze                                               *)

MaxFaults == 1

MaxLines == 2

\* The lines the analysed files are made of
AnalyzeLineCorpus ==
    { Chars("x = 42 "),
      Chars("def fB(): Math.random"),
      Chars("let a_b = 5;"),
      Chars("except E") }

\* The texts the analysed file holds: up to MaxLines lines joined by "\n"
AnalyzeFiles ==
    {Join(ls, <<"\n">>) : ls \in SeqsUpTo(AnalyzeLineCorpus, MaxLines)}

\* the position of a lower-case letter in the alphabet: how str compares
CharOrd(c) == CHOOSE i \in 1..26 : LowerAlpha[i] = c

\* a < b for two str of lower-case letters
StrLess(a, b) ==
    \E k \in 1..Len(b) :
        /\ \A j \in 1..(k - 1) : j <= Len(a) /\ a[j] = b[j]
        /\ k > Len(a) \/ CharOrd(a[k]) < CharOrd(b[k])

\* key(a) <= key(b)
KeyNotGreater(a, b) ==
    ~ \/ StrLess(Chars(b.severity), Chars(a.severity))
      \/ b.severity = a.severity /\ b.line_number < a.line_number

\* key(a) < key(b) for key = lambda v: (v.severity, v.line_number)
KeyLess(a, b) ==
    \/ StrLess(Chars(a.severity), Chars(b.severity))
    \/ a.severity = b.severity /\ a.line_number < b.line_number

\* sorted(vs, key=...): stable, an element goes behind those it is not less than
RECURSIVE Sorted(_)
Sorted(vs) ==
    IF vs = <<>> THEN <<>>
    ELSE LET x == vs[Len(vs)]
             front == Sorted(SubSeq(vs, 1, Len(vs) - 1))
             after == {k \in 1..Len(front) : KeyLess(x, front[k])}
             at == IF after = {} THEN Len(front) + 1 ELSE MinOf(after)
         IN  SubSeq(front, 1, at - 1) \o <<x>> \o SubSeq(front, at, Len(front))

\* What a rule function may raise while it runs
RuleErrors == {"ValueError"}

\* an exception that gets past line 62 (none does)
CaughtByRuleLoopNever(e) == FALSE

\* `except Exception as e` (line 62): every error of a rule is caught
CaughtByRuleLoop(e) == TRUE

Returned(value) == [raised |-> FALSE, error |-> <<>>, value |-> value]

Raised(error) == [raised |-> TRUE, error |-> error, value |-> <<>>]

NoAnalysis == Raised(<<"<no call yet>">>)

\* main (lines 329-330): analyze(file_path) is called once on the new
\* instance
AnalyzeCall(path) ==
    /\ pc = "idle"
    /\ calls' = calls + 1
    /\ file_path' = path
    /\ idx' = 1
    /\ result' = NoAnalysis
    /\ trace' = <<>>
    /\ pc' = "open"
    /\ UNCHANGED <<language, disk, backups, rules, lines, refactored_lines,
                   rules_applied, violations, warnings, writes, prev>>

\* Lines 51-56 and 67-68: the file is read and split at "\n", and
\* self.violations is emptied; a missing file raises FileNotFoundError.
AnalyzeOpen ==
    /\ pc = "open"
    /\ IF disk[file_path] = NoFile
       THEN /\ result' = Raised(<<"FileNotFoundError", file_path>>)
            /\ pc' = "done"
            /\ UNCHANGED <<lines, violations>>
       ELSE /\ lines' = Split(ReadContent(disk[file_path]), "\n")
            /\ violations' = <<>>
            /\ pc' = "rules"
            /\ UNCHANGED result
    /\ UNCHANGED <<language, disk, backups, file_path, rules, idx,
                   refactored_lines, rules_applied, warnings, calls, trace,
                   writes, prev>>

\* Lines 59-61: the next rule runs to its end and appends its violations
RuleCompletes ==
    /\ pc = "rules"
    /\ idx <= Len(DetectorOrder)
    /\ LET found == Detect(DetectorOrder[idx], language, lines)
       IN  /\ violations' = violations \o found
           /\ trace' = Append(trace, [rule |-> DetectorOrder[idx],
                                      raised |-> FALSE, n |-> Len(found)])
    /\ idx' = idx + 1
    /\ UNCHANGED <<pc, language, disk, backups, file_path, rules, lines,
                   refactored_lines, rules_applied, result, warnings, calls,
                   writes, prev>>

\* Lines 59-63: the next rule raises after appending the first k of its
\* violations (int() at line 305, for one, raises ValueError on a literal of
\* more digits than the interpreter converts); the error is printed as a
\* warning and the loop goes on.  An error that were not caught would reach
\* line 69 and leave analyze as an Exception.
RuleRaises(e) ==
    /\ pc = "rules"
    /\ idx <= Len(DetectorOrder)
    /\ Cardinality({j \in 1..Len(trace) : trace[j].raised}) < MaxFaults
    /\ LET found == Detect(DetectorOrder[idx], language, lines)
       IN  \E k \in 0..Len(found) :
               /\ violations' = violations \o SubSeq(found, 1, k)
               /\ trace' = Append(trace, [rule |-> DetectorOrder[idx],
                                          raised |-> TRUE, n |-> k])
    /\ IF CaughtByRuleLoop(e)
       THEN /\ warnings' = Append(warnings, <<DetectorOrder[idx], e>>)
            /\ idx' = idx + 1
            /\ UNCHANGED <<pc, result>>
       ELSE /\ result' = Raised(<<"Exception", e>>)
            /\ pc' = "done"
            /\ UNCHANGED <<idx, warnings>>
    /\ UNCHANGED <<language, disk, backups, file_path, rules, lines,
                   refactored_lines, rules_applied, calls, writes, prev>>

\* Line 65: the sorted list is returned
AnalyzeReturn ==
    /\ pc = "rules"
    /\ idx > Len(DetectorOrder)
    /\ result' = Returned(Sorted(violations))
    /\ pc' = "done"
    /\ UNCHANGED <<language, disk, backups, file_path, rules, lines, idx,
                   refactored_lines, rules_applied, violations, warnings,
                   calls, trace, writes, prev>>

\* CleanCodeAnalyzer(language) (lines 31-47) beside a file to analyse
InitAnalyze ==
    /\ pc = "idle"
    /\ language \in Languages
    /\ \E text \in AnalyzeFiles :
           disk = [p \in Paths |-> IF p = "target" THEN text ELSE NoFile]
    /\ backups = <<>>
    /\ file_path = ""
    /\ rules = None
    /\ lines = <<>>
    /\ idx = 1
    /\ refactored_lines = <<>>
    /\ rules_applied = {}
    /\ result = NoAnalysis
    /\ violations = <<>>
    /\ warnings = <<>>
    /\ calls = 0
    /\ trace = <<>>
    /\ writes = <<>>
    /\ prev = <<>>

NextAnalyze ==
    \/ \E path \in Paths : AnalyzeCall(path)
    \/ AnalyzeOpen
    \/ RuleCompletes
    \/ \E e \in RuleErrors : RuleRaises(e)
    \/ AnalyzeReturn

SpecAnalyze == InitAnalyze /\ [][NextAnalyze]_vars

-----------------------------------------------------------------------------
(* analyze on files none of whose rules raises: a brace-block and an       *)
(* indentation-block function around the length limit, a catch block, an   *)
(* except block, number literals and comment lines.                        *)

\* n copies of x
Repeat(x, n) == [k \in 1..n |-> x]

\* a brace-block function with n lines between its opening and closing line
JsFunction(n) ==
    <<Chars("function f() {")>> \o Repeat(Chars("  a();"), n) \o <<Chars("}")>>

\* an indentation-block function with n lines under its def line
PyFunction(n) == <<Chars("def f():")>> \o Repeat(Chars("  a()"), n)

\* body lengths around the limit of line 125
BodyLengths == (FunctionLengthLimit - 1)..(FunctionLengthLimit + 1)

CatchLines ==
    << Chars("try {"), Chars("} catch (e) {"), Chars("  x = 1;"), Chars("}") >>

\* a 30-character line ending in blanks, a bare except followed by pass, and
\* 999 in an assignment
EndToEndLines ==
    << Chars("value = compute(alpha, beta)  "), Chars("try:"), Chars("    f()"),
       Chars("except:"), Chars("    pass"), Chars("n = 999") >>

MagicLines ==
    << Chars("x = 100"), Chars("x = 42"), Chars("42"), Chars("notify 42"),
       Chars("y = 007") >>

CommentLines ==
    << Chars("# todo"), Chars("// todo"), Chars("//fixme"), Chars("#  HACK "),
       Chars("# todo later") >>

ScenarioLines ==
    {CatchLines, EndToEndLines, MagicLines, CommentLines}
        \cup {JsFunction(n) : n \in BodyLengths}
        \cup {PyFunction(n) : n \in BodyLengths}

\* The texts of the files: the lines joined by "\n"
ScenarioFiles == {Join(ls, <<"\n">>) : ls \in ScenarioLines}

\* CleanCodeAnalyzer(language) (lines 31-47) beside one of the files
InitScenario ==
    /\ pc = "idle"
    /\ language \in Languages
    /\ \E text \in ScenarioFiles :
           disk = [p \in Paths |-> IF p = "target" THEN text ELSE NoFile]
    /\ backups = <<>>
    /\ file_path = ""
    /\ rules = None
    /\ lines = <<>>
    /\ idx = 1
    /\ refactored_lines = <<>>
    /\ rules_applied = {}
    /\ result = NoAnalysis
    /\ violations = <<>>
    /\ warnings = <<>>
    /\ calls = 0
    /\ trace = <<>>
    /\ writes = <<>>
    /\ prev = <<>>

NextScenario ==
    \/ \E path \in Paths : AnalyzeCall(path)
    \/ AnalyzeOpen
    \/ RuleCompletes
    \/ AnalyzeReturn

SpecScenario == InitScenario /\ [][NextScenario]_vars

-----------------------------------------------------------------------------
(* The transformer methods called on an instance whose buffer the caller   *)
(* has filled (refactor itself never gets a transformer to run).           *)

\* The lines the buffers are made of: with and without a final newline,
\* blank, ending in spaces, tabs and carriage returns, with magic numbers
BufferLineCorpus ==
    { Chars("x = 5 \n"),
      Chars("a\t\r"),
      <<"\n">>,
      Chars("n = 100  \t\n"),
      Chars("const k = 10;") }

DirectBuffers == SeqsUpTo(BufferLineCorpus, MaxLines)

\* One of the methods of lines 130-236 is called; prev keeps the buffers the
\* earlier calls started from and trace the methods called.
CallTransformer(rule) ==
    /\ pc = "loaded"
    /\ calls < MaxCalls
    /\ calls' = calls + 1
    /\ prev' = Append(prev, refactored_lines)
    /\ trace' = Append(trace, rule)
    /\ refactored_lines' = Transform(rule, language, refactored_lines)
    /\ UNCHANGED <<pc, language, disk, backups, file_path, rules, lines, idx,
                   rules_applied, result, violations, warnings, writes>>

\* CleanCodeRefactorer(language) (lines 28-31) with refactored_lines then
\* set by the caller
InitDirect ==
    /\ pc = "loaded"
    /\ language \in Languages
    /\ refactored_lines \in DirectBuffers
    /\ disk = [p \in Paths |-> NoFile]
    /\ backups = <<>>
    /\ file_path = ""
    /\ rules = None
    /\ lines = <<>>
    /\ idx = 1
    /\ rules_applied = {}
    /\ result = NoResult
    /\ violations = <<>>
    /\ warnings = <<>>
    /\ calls = 0
    /\ trace = <<>>
    /\ writes = <<>>
    /\ prev = <<>>

NextDirect == \E rule \in RuleNames : CallTransformer(rule)

SpecDirect == InitDirect /\ [][NextDirect]_vars

-----------------------------------------------------------------------------
(* The naming helpers _to_camel_case and _to_snake_case called on a str.   *)

MaxSegments == 2

MaxSegmentLength == 2

SegmentLetters == {"a", "b"}

\* non-empty runs of lower-case letters
Segments == SeqsUpTo(SegmentLetters, MaxSegmentLength) \ {<<>>}

\* one to MaxSegments segments joined by single underscores
SnakeNames ==
    {Join(ws, <<"_">>) : ws \in SeqsUpTo(Segments, MaxSegments) \ {<<>>}}

\* other identifiers the fixers meet: a doubled, a leading and a trailing
\* underscore, an upper-case letter, a digit
OtherNames ==
    {Chars("a__b"), Chars("_a"), Chars("a_"), Chars("aB"), Chars("a_1b")}

Identifiers == SnakeNames \cup OtherNames \cup {Chars("my_var_name")}

\* _to_camel_case(result) is called (lines 239-242); prev keeps the arguments
\* of the calls and trace the helpers called
CallToCamelCase ==
    /\ pc = "naming"
    /\ calls < MaxCalls
    /\ calls' = calls + 1
    /\ prev' = Append(prev, result)
    /\ trace' = Append(trace, "_to_camel_case")
    /\ result' = to_camel_case(result)
    /\ UNCHANGED <<pc, language, disk, backups, file_path, rules, lines, idx,
                   refactored_lines, rules_applied, violations, warnings,
                   writes>>

\* _to_snake_case(result) is called (lines 244-251)
CallToSnakeCase ==
    /\ pc = "naming"
    /\ calls < MaxCalls
    /\ calls' = calls + 1
    /\ prev' = Append(prev, result)
    /\ trace' = Append(trace, "_to_snake_case")
    /\ result' = to_snake_case(result)
    /\ UNCHANGED <<pc, language, disk, backups, file_path, rules, lines, idx,
                   refactored_lines, rules_applied, violations, warnings,
                   writes>>

\* CleanCodeRefactorer(language) (lines 28-31) and an identifier to convert
InitNaming ==
    /\ pc = "naming"
    /\ language \in Languages
    /\ result \in Identifiers
    /\ disk = [p \in Paths |-> NoFile]
    /\ backups = <<>>
    /\ file_path = ""
    /\ rules = None
    /\ lines = <<>>
    /\ idx = 1
    /\ refactored_lines = <<>>
    /\ rules_applied = {}
    /\ violations = <<>>
    /\ warnings = <<>>
    /\ calls = 0
    /\ trace = <<>>
    /\ writes = <<>>
    /\ prev = <<>>

NextNaming ==
    \/ CallToCamelCase
    \/ CallToSnakeCase

SpecNaming == InitNaming /\ [][NextNaming]_vars

-----------------------------------------------------------------------------
(* Properties of refactor, checked under Spec.                             *)

\* the call has returned and had read its file
ReadOk ==
    /\ pc = "done"
    /\ (result.success \/ result.error[1] # "FileNotFoundError")

KnownNames(rs) == SelectSeq(rs, LAMBDA n : n \in RuleNames)

\* the registered names the call selected, in the order the loop meets them
Selected(rs) == IF Explicit(rs) THEN KnownNames(rs) ELSE RuleOrder

\* the transformers that ran to their end during the running call
Completed == {trace[k].rule : k \in {j \in 1..Len(trace) : ~trace[j].raised}}

\* the names of a list, in registration order
InRegistrationOrder(rs) ==
    SelectSeq(RuleOrder, LAMBDA r : \E k \in 1..Len(rs) : rs[k] = r)

RECURSIVE ApplyInOrder(_, _, _)
ApplyInOrder(names, lang, buf) ==
    IF names = <<>> THEN buf
    ELSE ApplyInOrder(Tail(names), lang, Transform(names[1], lang, buf))

\* C3: a transformer that raises is caught, is not in rules_applied and does
\* not stop the transformers after it, with rules omitted or listed: a call
\* that read its file returns success=true with the names of the
\* transformers that completed, after running every transformer selected.
C3_RaisingTransformerIsIsolated ==
    ReadOk =>
        /\ result.success
        /\ result.rules_applied = Completed
        /\ Len(trace) = Len(Selected(rules))

\* C5: a call that leaves the buffer equal to the lines it read writes no
\* file, reports no applied rule and no backup; a call writes only after a
\* transformer changed the buffer; and the backup a successful call names
\* differs from the target.
C5_NoChangeNoBackup ==
    pc = "done" =>
        /\ (ReadOk /\ refactored_lines = lines) =>
               /\ writes = <<>>
               /\ result.rules_applied = {}
               /\ result.backup_file.kind # "path"
        /\ writes # <<>> => (ReadOk /\ refactored_lines # lines)
        /\ (result.success /\ result.backup_file.kind = "path") =>
               backups[<<result.backup_file.path, result.backup_file.ts>>]
                   # disk[result.backup_file.path]

\* C5's case: a clean file, rules omitted; every transformer was called and
\* the file is untouched.
C5_Witness ==
    /\ pc = "done"
    /\ rules = None
    /\ file_path = "target"
    /\ disk["target"] = Chars("x = 1\n")
    /\ Len(trace) = Len(RuleOrder)
    /\ refactored_lines = lines
    /\ result = Success({}, NoBackup, 0)
    /\ writes = <<>>

\* C6: names of an explicit list that are not registered are passed over:
\* none is called, none causes the error, none is in rules_applied, the
\* registered names are called in the list's order as if the others were not
\* there; a list of unknown names only returns success=true with no rule
\* applied, no backup, changes_count 0 and nothing written.
C6_UnknownNamesIgnored ==
    (ReadOk /\ Explicit(rules)) =>
        /\ result.rules_applied \subseteq RuleNames
        /\ result.error # <<>> => result.error[2] \in RuleNames
        /\ Len(trace) <= Len(KnownNames(rules))
        /\ \A k \in 1..Len(trace) : trace[k].rule = KnownNames(rules)[k]
        /\ KnownNames(rules) = <<>> =>
               /\ result = Success({}, NoBackup, 0)
               /\ writes = <<>>

C6_Witness ==
    /\ pc = "done"
    /\ file_path = "target"
    /\ rules = <<UnknownRule, UnknownRule>>
    /\ result = Success({}, NoBackup, 0)
    /\ writes = <<>>
    /\ trace = <<>>

C8_AppliedInRegistrationOrder ==
    ReadOk =>
        refactored_lines =
            ApplyInOrder(InRegistrationOrder(Selected(rules)), language, lines)


-----------------------------------------------------------------------------
(* Properties of analyze, checked under SpecAnalyze.                       *)

\* analyze has ended on a file it could read
Analyzed ==
    /\ pc = "done"
    /\ disk[file_path] # NoFile

\* error before warning before info
SeverityRank(severity) ==
    CASE severity = "error"   -> 1
      [] severity = "warning" -> 2
      [] severity = "info"    -> 3

\* C1: the list analyze returns has every error before every warning and
\* every warning before every info, and among violations of one severity the
\* line numbers do not decrease.
C1_ErrorsThenWarningsThenInfos ==
    (Analyzed /\ ~result.raised) =>
        \A i, j \in 1..Len(result.value) :
            i < j =>
                LET a == result.value[i]
                    b == result.value[j]
                IN  \/ SeverityRank(a.severity) < SeverityRank(b.severity)
                    \/ /\ a.severity = b.severity
                       /\ a.line_number <= b.line_number

\* what the k-th rule of the run left in self.violations
Left(k) ==
    LET found == Detect(DetectorOrder[k], language, lines)
    IN  IF trace[k].raised THEN SubSeq(found, 1, trace[k].n) ELSE found

\* the rules of the run that raised, in the order they ran
Failed == SelectSeq(trace, LAMBDA t : t.raised)

\* the two sequences hold the same elements, each as often
SameElements(s, t) ==
    /\ Len(s) = Len(t)
    /\ \A k \in 1..Len(s) :
           Cardinality({j \in 1..Len(s) : s[j] = s[k]})
               = Cardinality({j \in 1..Len(t) : t[j] = s[k]})

\* C2: when rules raise during analyze on a readable file, analyze still
\* returns a list, every registered rule has been run, in order, the list
\* holds exactly what the rules that did not raise produce and what the
\* raising rules had appended before they raised, and each failure is on
\* the warning channel and nowhere else.
C2_RuleFailureIsIsolated ==
    Analyzed =>
        /\ ~result.raised
        /\ Len(trace) = Len(DetectorOrder)
        /\ \A k \in 1..Len(trace) : trace[k].rule = DetectorOrder[k]
        /\ SameElements(result.value,
                        Flatten([k \in 1..Len(trace) |-> Left(k)]))
        /\ Len(warnings) = Len(Failed)
        /\ \A k \in 1..Len(Failed) : warnings[k][1] = Failed[k].rule

\* C2 witness: a rule raised after it had appended a violation, a later rule
\* found one too, and analyze has returned
C2_Witness ==
    /\ Analyzed
    /\ ~result.raised
    /\ \E k \in 1..Len(trace) :
           /\ trace[k].raised
           /\ trace[k].n > 0
           /\ \E j \in (k + 1)..Len(trace) : ~trace[j].raised /\ trace[j].n > 0


-----------------------------------------------------------------------------
(* Properties of the transformers, checked under SpecDirect.               *)

\* the last two calls were both of the method `rule`
CalledTwice(rule) ==
    /\ Len(trace) >= 2
    /\ trace[Len(trace)] = rule
    /\ trace[Len(trace) - 1] = rule

\* C9: applying remove_trailing_whitespace twice yields the same buffer as
\* applying it once, whatever the lines end in.
C9_TrailingWhitespaceIdempotent ==
    CalledTwice("remove_trailing_whitespace") =>
        refactored_lines = prev[Len(prev)]

\* C9 witness: remove_trailing_whitespace has run twice on a buffer that held
\* a line without final newline and a line ending in blanks, and the first
\* run changed the buffer
C9_Witness ==
    /\ trace = <<"remove_trailing_whitespace", "remove_trailing_whitespace">>
    /\ \E i \in 1..Len(prev[1]) : prev[1][i] = Chars("a\t\r")
    /\ \E i \in 1..Len(prev[1]) : prev[1][i] = Chars("x = 5 \n")
    /\ prev[2] # prev[1]
    /\ refactored_lines = prev[2]

\* the line declares the constant of entry m: it opens as the line that
\* extract_constants inserts for m does
Declares(lang, line, m) ==
    StartsWith(line, IF lang = "python"
                     THEN m.const_name \o Chars(" = ")
                     ELSE Chars("const ") \o m.const_name \o Chars(" = "))

\* C10: after extract_constants no constant of the mapping has more than one
\* declaration line in the buffer, and extract_constants applied to its own
\* output leaves the buffer as it is.
C10_ExtractConstantsIdempotent ==
    /\ (trace # <<>> /\ trace[Len(trace)] = "extract_constants") =>
           \A k \in 1..Len(MagicNumbers) :
               Cardinality({i \in 1..Len(refactored_lines) :
                   Declares(language, refactored_lines[i], MagicNumbers[k])}) <= 1
    /\ CalledTwice("extract_constants") =>
           refactored_lines = prev[Len(prev)]


-----------------------------------------------------------------------------
(* Properties of the detector rules, checked under SpecScenario.           *)

\* analyze has returned its list
Listed == Analyzed /\ ~result.raised

\* the positions in the returned list of the violations of a rule at a line
At(rule_name, i) ==
    {k \in 1..Len(result.value) :
        /\ result.value[k].rule_name = rule_name
        /\ result.value[k].line_number = i}

\* the line opens a function in the language of the instance
FunctionStart(line) ==
    IF language \in JsLanguages
    THEN Contains(line, Chars("function "))
    ELSE StartsWith(Strip(line), Chars("def "))

\* C11: every violation analyze returns carries the 1-based number of a line
\* of the input file; a functionLength violation carries the number of the
\* line holding the function start token, an emptyCatch violation the number
\* of the line whose text is its code_snippet.
C11_LineNumbersAreOneBased ==
    Listed =>
        \A k \in 1..Len(result.value) :
            LET v == result.value[k]
            IN  /\ v.line_number \in 1..Len(lines)
                /\ v.rule_name = "functionLength" =>
                       FunctionStart(lines[v.line_number])
                /\ v.rule_name = "emptyCatch" =>
                       Strip(lines[v.line_number]) = v.code_snippet

\* the magic-number rule reported the literal num of line i
Flagged(i, num) ==
    \E k \in At("magicNumber", i) :
        result.value[k].description = <<"Potential magic number", num>>

OperatorChars == {"=", "+", "-", "*", "/"}

\* w stands in the line as a word
HasWord(line, w) ==
    \E a \in 1..(Len(line) - Len(w) + 1) :
        /\ SubSeq(line, a, a + Len(w) - 1) = w
        /\ a = 1 \/ ~IsWord(line[a - 1])
        /\ a + Len(w) - 1 = Len(line) \/ ~IsWord(line[a + Len(w)])

\* C12: the magic-number rule never flags a literal of the allow-list, flags
\* a multi-digit literal outside it on a line with `=`, and does not flag
\* one on a line with no operator character and neither `if` nor `for` as a
\* word.
C12_MagicNumberContext ==
    Listed =>
        \A i \in 1..Len(lines) :
            LET ms == NumberMatches(lines[i])
            IN  \A j \in 1..Len(ms) :
                    LET num == StrToInt(SubSeq(lines[i], ms[j].from, ms[j].to))
                        multi == num >= 10 /\ num \notin AllowedNumbers
                        bare ==
                            /\ \A a \in 1..Len(lines[i]) :
                                   lines[i][a] \notin OperatorChars
                            /\ ~HasWord(lines[i], Chars("if"))
                            /\ ~HasWord(lines[i], Chars("for"))
                    IN  /\ num \in AllowedNumbers => ~Flagged(i, num)
                        /\ (multi /\ Contains(lines[i], Chars("="))) =>
                               Flagged(i, num)
                        /\ (multi /\ bare) => ~Flagged(i, num)

\* C13: in a brace-block language a function is reported as functionLength
\* exactly when its body, the declaration line not counted, has more than 20
\* lines: not with 20, with 21.
C13_FunctionLengthBoundary ==
    (Listed /\ language \in JsLanguages) =>
        \A n \in BodyLengths :
            lines = JsFunction(n) =>
                ((\E k \in 1..Len(result.value) :
                      result.value[k].rule_name = "functionLength")
                 <=> n > FunctionLengthLimit)

\* the rule names and severities of the returned list, as a bag
Kinds ==
    [kind \in {<<result.value[k].rule_name, result.value[k].severity>> :
                   k \in 1..Len(result.value)} |->
        Cardinality({k \in 1..Len(result.value) :
            <<result.value[k].rule_name, result.value[k].severity>> = kind})]

\* C14: in python a bare `except:` line followed by a `pass` line is
\* reported as exactly one poorExcept warning at that line, and the file of
\* a 30-character line with trailing blanks, a bare except with pass and 999
\* in an assignment yields exactly trailingWhitespace (info), poorExcept
\* (warning) and magicNumber (info) for 999.
C14_BareExceptEndToEnd ==
    (Listed /\ language = "python") =>
        /\ \A i \in 1..(Len(lines) - 1) :
               (Strip(lines[i]) = Chars("except:")
                    /\ Strip(lines[i + 1]) = Chars("pass")) =>
                   /\ Cardinality(At("poorExcept", i)) = 1
                   /\ \A k \in At("poorExcept", i) :
                          result.value[k].severity = "warning"
        /\ lines = EndToEndLines =>
               /\ Len(result.value) = 3
               /\ Kinds = (<<"trailingWhitespace", "info">> :> 1)
                             @@ (<<"poorExcept", "warning">> :> 1)
                             @@ (<<"magicNumber", "info">> :> 1)
               /\ \E i \in 1..Len(lines) : Flagged(i, 999)

CommentMarkers == {Chars("#"), Chars("//")}

MarkerWords == {Chars("todo"), Chars("fixme"), Chars("hack")}

\* C18: a line whose stripped text is `#` or `//` followed by a body that,
\* trimmed and lower-cased, is todo, fixme or hack yields exactly one
\* uselessComment violation, an info, at that line.
C18_BothCommentMarkers ==
    Listed =>
        \A i \in 1..Len(lines) :
            \A marker \in CommentMarkers :
                LET stripped == Strip(lines[i])
                    rest == SubSeq(stripped, Len(marker) + 1, Len(stripped))
                IN  (StartsWith(stripped, marker)
                         /\ Lower(Strip(rest)) \in MarkerWords) =>
                        /\ Cardinality(At("uselessComment", i)) = 1
                        /\ \A k \in At("uselessComment", i) :
                               result.value[k].severity = "info"


-----------------------------------------------------------------------------
(* Properties of the naming helpers, checked under SpecNaming.             *)

\* non-empty segments of lower-case letters joined by single underscores
SnakeIdentifier(s) ==
    /\ s # <<>>
    /\ \A k \in 1..Len(s) : IsLower(s[k]) \/ s[k] = "_"
    /\ s[1] # "_"
    /\ s[Len(s)] # "_"
    /\ \A k \in 1..(Len(s) - 1) : ~(s[k] = "_" /\ s[k + 1] = "_")

\* the last two calls were _to_camel_case and then _to_snake_case on what it
\* returned
RoundTrip ==
    /\ Len(trace) >= 2
    /\ trace[Len(trace) - 1] = "_to_camel_case"
    /\ trace[Len(trace)] = "_to_snake_case"

\* C15: an identifier of lower-case segments joined by single underscores,
\* converted to camelCase and the result to snake_case, comes back as it
\* was; my_var_name becomes myVarName and myVarName becomes my_var_name.
C15_NamingRoundTrip ==
    (RoundTrip /\ SnakeIdentifier(prev[Len(prev) - 1])) =>
        /\ result = prev[Len(prev) - 1]
        /\ prev[Len(prev) - 1] = Chars("my_var_name") =>
               prev[Len(prev)] = Chars("myVarName")

\* C15 witness: my_var_name went to myVarName and back
C15_Witness ==
    /\ trace = <<"_to_camel_case", "_to_snake_case">>
    /\ prev = <<Chars("my_var_name"), Chars("myVarName")>>
    /\ result = Chars("my_var_name")


-----------------------------------------------------------------------------
(* Properties of the order of the returned list, checked under SpecAnalyze. *)

\* the place of a category among the keys of self.rules
RuleIndex(category) ==
    CHOOSE k \in 1..Len(DetectorOrder) : DetectorOrder[k] = category

\* the violations at places i and j have the same severity and line number
Tie(i, j) ==
    /\ result.value[i].severity = result.value[j].severity
    /\ result.value[i].line_number = result.value[j].line_number

\* C16: the returned list holds every violation the rules appended, each as
\* often as it was appended, and two violations of the same severity and
\* line number stand in the order in which their rules are registered.
C16_NothingDroppedTiesInRuleOrder ==
    Listed =>
        /\ SameElements(violations, result.value)
        /\ \A i, j \in 1..Len(result.value) :
               (i < j /\ Tie(i, j)) =>
                   RuleIndex(result.value[i].rule_category)
                       <= RuleIndex(result.value[j].rule_category)

\* C16 witness: two rules reported the same line with the same severity and
\* both are in the returned list
C16_Witness ==
    /\ Listed
    /\ \E i, j \in 1..Len(result.value) :
           /\ i < j
           /\ Tie(i, j)
           /\ result.value[i].rule_category # result.value[j].rule_category


-----------------------------------------------------------------------------
(* Properties of extract_constants, checked under SpecDirect.              *)

\* the line holds the literal of entry m as a number of its own
Uses(line, m) ==
    LET ms == NumberMatches(line)
    IN  \E j \in 1..Len(ms) : SubSeq(line, ms[j].from, ms[j].to) = m.num

\* the entries of the mapping the buffer uses
Used(buf) ==
    {k \in 1..Len(MagicNumbers) :
        \E i \in 1..Len(buf) : Uses(buf[i], MagicNumbers[k])}

\* C17: after extract_constants, for every literal of the mapping that the
\* buffer used, first line of the buffer included, its declaration line
\* stands in the buffer right above a line that names the constant and no
\* longer holds the literal; every original line is kept and nothing else
\* is added.
C17_DeclarationAboveFirstUse ==
    trace = <<"extract_constants">> =>
        /\ \A k \in Used(prev[1]) :
               \E p \in 1..(Len(refactored_lines) - 1) :
                   /\ refactored_lines[p] = Declaration(language, MagicNumbers[k])
                   /\ Contains(refactored_lines[p + 1], MagicNumbers[k].const_name)
                   /\ ~Uses(refactored_lines[p + 1], MagicNumbers[k])
        /\ Len(refactored_lines) = Len(prev[1]) + Cardinality(Used(prev[1]))


-----------------------------------------------------------------------------
(* Properties of a failed refactor call, checked under Spec.               *)

\* no backup file exists
NoBackups == \A b \in Paths \X Timestamps : backups[b] = NoFile

\* C19: a refactor call that returns success=false, because the file could
\* not be read or because a transformer named in an explicit list raised,
\* has written nothing: the target holds what the call read and there is no
\* backup file.
C19_FailedCallWritesNothing ==
    (pc = "done" /\ ~result.success) =>
        /\ writes = <<>>
        /\ NoBackups
        /\ disk[file_path] # NoFile => ReadLines(disk[file_path]) = lines

\* C19 witness: a call with an explicit list read its file, the transformer
\* it called raised, and it returned success=false with nothing written
C19_Witness ==
    /\ pc = "done"
    /\ ~result.success
    /\ result.error[1] = "TypeError"
    /\ Explicit(rules)
    /\ Len(trace) = 1
    /\ trace[1].raised
    /\ disk[file_path] # NoFile
    /\ ReadLines(disk[file_path]) = lines
    /\ writes = <<>>
    /\ NoBackups

====
